---------------------------- MODULE Spec2Model ----------------------------
(***************************************************************************)
(* The slide-deck export of the AI document generator:                     *)
(*   backend/utils/pptx_generator.py  (THEMES, ICON_MAP, get_icon_for_title, *)
(*       clean_text_formatting, apply_gradient_background,                 *)
(*       add_decorative_bar, generate_pptx)                                *)
(*   backend/main.py                  (ExportRequest, export_document)     *)
(*                                                                         *)
(* Text is a sequence of one-character strings, so that substring search,  *)
(* case folding and the regular-expression substitutions are computed      *)
(* character by character.  A glyph is one element named by its code       *)
(* points ("U+1F4CA").  Lengths are hundredths of an inch (Inches(0.06) is *)
(* 6), transparencies are percentages, font sizes are points.              *)
(***************************************************************************)
EXTENDS Integers, Sequences, FiniteSets, TLC

VARIABLES
    pc,            \* position of the running call
    caller,        \* "none", "http" (export_document) or "direct" (a library call)
    request,       \* the JSON body received by export_document
    unsupported,   \* the decorative capabilities the render target lacks
    args,          \* the arguments generate_pptx was called with
    topic,         \* generate_pptx: parameter topic
    sections,      \* generate_pptx: parameter sections
    theme,         \* generate_pptx: parameter theme, after resolution
    theme_colors,  \* generate_pptx: local theme_colors
    prs,           \* generate_pptx: the Presentation under construction
    i,             \* generate_pptx: index of the next section (enumerate(sections, 1))
    file_bytes,    \* what generate_pptx returned
    exc,           \* the exception in flight
    response,      \* what export_document answered
    calls,         \* the locals of each of the concurrent generate_pptx calls
    module_THEMES,   \* the module-level dictionary THEMES
    module_ICON_MAP  \* the module-level dictionary ICON_MAP

vars == <<pc, caller, request, unsupported, args, topic, sections, theme,
          theme_colors, prs, i, file_bytes, exc, response,
          calls, module_THEMES, module_ICON_MAP>>

-----------------------------------------------------------------------------
(* Bounds of the checked inputs *)

\* longest outline (number of sections) handed to generate_pptx
MaxSections == 2
\* longest content string enumerated over ContentAlphabet
MaxContentLen == 4
\* most words in an enumerated section title
MaxTitleWords == 2
\* number of generate_pptx calls that run concurrently
MaxCalls == 2

-----------------------------------------------------------------------------
(* THEMES, pptx_generator.py 12-53 *)

THEMES ==
    [professional_blue |->
        [name |-> "Professional Blue", bg_start |-> <<227, 242, 253>>,
         bg_end |-> <<187, 222, 251>>, title_color |-> <<25, 118, 210>>,
         text_color |-> <<33, 33, 33>>, accent_color |-> <<66, 165, 245>>],
     modern_dark |->
        [name |-> "Modern Dark", bg_start |-> <<48, 48, 48>>,
         bg_end |-> <<33, 33, 33>>, title_color |-> <<255, 255, 255>>,
         text_color |-> <<220, 220, 220>>, accent_color |-> <<102, 126, 234>>],
     vibrant_orange |->
        [name |-> "Vibrant Orange", bg_start |-> <<255, 243, 224>>,
         bg_end |-> <<255, 224, 178>>, title_color |-> <<230, 81, 0>>,
         text_color |-> <<62, 39, 35>>, accent_color |-> <<255, 152, 0>>],
     nature_green |->
        [name |-> "Nature Green", bg_start |-> <<232, 245, 233>>,
         bg_end |-> <<200, 230, 201>>, title_color |-> <<27, 94, 32>>,
         text_color |-> <<33, 33, 33>>, accent_color |-> <<76, 175, 80>>],
     elegant_purple |->
        [name |-> "Elegant Purple", bg_start |-> <<243, 229, 245>>,
         bg_end |-> <<225, 190, 231>>, title_color |-> <<74, 20, 140>>,
         text_color |-> <<33, 33, 33>>, accent_color |-> <<142, 36, 170>>]]

(* ICON_MAP, pptx_generator.py 56-142, in declaration order *)

ICON_MAP ==
  <<
     [keyword |-> <<"i", "n", "t", "r", "o", "d", "u", "c", "t", "i", "o", "n">>, icon |-> "U+1F4CA"],
     [keyword |-> <<"o", "v", "e", "r", "v", "i", "e", "w">>, icon |-> "U+1F441 U+FE0F"],
     [keyword |-> <<"a", "g", "e", "n", "d", "a">>, icon |-> "U+1F4CB"],
     [keyword |-> <<"o", "u", "t", "l", "i", "n", "e">>, icon |-> "U+1F4DD"],
     [keyword |-> <<"s", "t", "r", "a", "t", "e", "g", "y">>, icon |-> "U+1F3AF"],
     [keyword |-> <<"b", "u", "s", "i", "n", "e", "s", "s">>, icon |-> "U+1F4BC"],
     [keyword |-> <<"m", "a", "r", "k", "e", "t">>, icon |-> "U+1F4C8"],
     [keyword |-> <<"t", "r", "a", "d", "i", "n", "g">>, icon |-> "U+1F4B9"],
     [keyword |-> <<"f", "i", "n", "a", "n", "c", "e">>, icon |-> "U+1F4B0"],
     [keyword |-> <<"i", "n", "v", "e", "s", "t", "m", "e", "n", "t">>, icon |-> "U+1F4B5"],
     [keyword |-> <<"s", "a", "l", "e", "s">>, icon |-> "U+1F91D"],
     [keyword |-> <<"m", "a", "r", "k", "e", "t", "i", "n", "g">>, icon |-> "U+1F4E2"],
     [keyword |-> <<"a", "n", "a", "l", "y", "s", "i", "s">>, icon |-> "U+1F50D"],
     [keyword |-> <<"d", "a", "t", "a">>, icon |-> "U+1F4CA"],
     [keyword |-> <<"s", "t", "a", "t", "i", "s", "t", "i", "c", "s">>, icon |-> "U+1F4C9"],
     [keyword |-> <<"m", "e", "t", "r", "i", "c", "s">>, icon |-> "U+1F4CF"],
     [keyword |-> <<"r", "e", "p", "o", "r", "t">>, icon |-> "U+1F4C4"],
     [keyword |-> <<"r", "e", "s", "e", "a", "r", "c", "h">>, icon |-> "U+1F52C"],
     [keyword |-> <<"t", "e", "c", "h", "n", "o", "l", "o", "g", "y">>, icon |-> "U+1F4BB"],
     [keyword |-> <<"a", "i">>, icon |-> "U+1F916"],
     [keyword |-> <<"a", "r", "t", "i", "f", "i", "c", "i", "a", "l", " ", "i", "n", "t", "e", "l", "l", "i", "g", "e", "n", "c", "e">>, icon |-> "U+1F916"],
     [keyword |-> <<"m", "a", "c", "h", "i", "n", "e", " ", "l", "e", "a", "r", "n", "i", "n", "g">>, icon |-> "U+1F9E0"],
     [keyword |-> <<"a", "l", "g", "o", "r", "i", "t", "h", "m">>, icon |-> "U+2699 U+FE0F"],
     [keyword |-> <<"a", "u", "t", "o", "m", "a", "t", "i", "o", "n">>, icon |-> "U+1F504"],
     [keyword |-> <<"d", "i", "g", "i", "t", "a", "l">>, icon |-> "U+1F4F1"],
     [keyword |-> <<"s", "o", "f", "t", "w", "a", "r", "e">>, icon |-> "U+1F4BE"],
     [keyword |-> <<"r", "i", "s", "k">>, icon |-> "U+26A0 U+FE0F"],
     [keyword |-> <<"s", "e", "c", "u", "r", "i", "t", "y">>, icon |-> "U+1F512"],
     [keyword |-> <<"p", "r", "o", "t", "e", "c", "t", "i", "o", "n">>, icon |-> "U+1F6E1 U+FE0F"],
     [keyword |-> <<"s", "a", "f", "e", "t", "y">>, icon |-> "U+1F9BA"],
     [keyword |-> <<"g", "r", "o", "w", "t", "h">>, icon |-> "U+1F4C8"],
     [keyword |-> <<"s", "u", "c", "c", "e", "s", "s">>, icon |-> "U+1F3C6"],
     [keyword |-> <<"a", "c", "h", "i", "e", "v", "e", "m", "e", "n", "t">>, icon |-> "U+1F396 U+FE0F"],
     [keyword |-> <<"g", "o", "a", "l", "s">>, icon |-> "U+1F3AF"],
     [keyword |-> <<"t", "a", "r", "g", "e", "t">>, icon |-> "U+1F3AF"],
     [keyword |-> <<"f", "u", "t", "u", "r", "e">>, icon |-> "U+1F52E"],
     [keyword |-> <<"i", "n", "n", "o", "v", "a", "t", "i", "o", "n">>, icon |-> "U+1F4A1"],
     [keyword |-> <<"t", "r", "e", "n", "d", "s">>, icon |-> "U+1F4CA"],
     [keyword |-> <<"f", "o", "r", "e", "c", "a", "s", "t">>, icon |-> "U+1F324 U+FE0F"],
     [keyword |-> <<"p", "r", "e", "d", "i", "c", "t", "i", "o", "n">>, icon |-> "U+1F52E"],
     [keyword |-> <<"c", "o", "m", "m", "u", "n", "i", "c", "a", "t", "i", "o", "n">>, icon |-> "U+1F4AC"],
     [keyword |-> <<"t", "e", "a", "m">>, icon |-> "U+1F465"],
     [keyword |-> <<"c", "o", "l", "l", "a", "b", "o", "r", "a", "t", "i", "o", "n">>, icon |-> "U+1F91D"],
     [keyword |-> <<"m", "e", "e", "t", "i", "n", "g">>, icon |-> "U+1F5D3 U+FE0F"],
     [keyword |-> <<"p", "r", "o", "c", "e", "s", "s">>, icon |-> "U+2699 U+FE0F"],
     [keyword |-> <<"t", "i", "m", "e", "l", "i", "n", "e">>, icon |-> "U+1F4C5"],
     [keyword |-> <<"r", "o", "a", "d", "m", "a", "p">>, icon |-> "U+1F5FA U+FE0F"],
     [keyword |-> <<"w", "o", "r", "k", "f", "l", "o", "w">>, icon |-> "U+1F504"],
     [keyword |-> <<"r", "e", "s", "u", "l", "t", "s">>, icon |-> "U+2705"],
     [keyword |-> <<"c", "o", "n", "c", "l", "u", "s", "i", "o", "n">>, icon |-> "U+1F3C1"],
     [keyword |-> <<"s", "u", "m", "m", "a", "r", "y">>, icon |-> "U+1F4DD"],
     [keyword |-> <<"t", "a", "k", "e", "a", "w", "a", "y">>, icon |-> "U+1F381"],
     [keyword |-> <<"r", "e", "c", "o", "m", "m", "e", "n", "d", "a", "t", "i", "o", "n">>, icon |-> "U+1F44D"],
     [keyword |-> <<"p", "r", "o", "b", "l", "e", "m">>, icon |-> "U+2757"],
     [keyword |-> <<"c", "h", "a", "l", "l", "e", "n", "g", "e">>, icon |-> "U+1F9D7"],
     [keyword |-> <<"s", "o", "l", "u", "t", "i", "o", "n">>, icon |-> "U+1F4A1"],
     [keyword |-> <<"b", "e", "n", "e", "f", "i", "t", "s">>, icon |-> "U+2728"],
     [keyword |-> <<"a", "d", "v", "a", "n", "t", "a", "g", "e", "s">>, icon |-> "U+2795"],
     [keyword |-> <<"e", "d", "u", "c", "a", "t", "i", "o", "n">>, icon |-> "U+1F393"],
     [keyword |-> <<"l", "e", "a", "r", "n", "i", "n", "g">>, icon |-> "U+1F4DA"],
     [keyword |-> <<"t", "r", "a", "i", "n", "i", "n", "g">>, icon |-> "U+1F3CB U+FE0F"],
     [keyword |-> <<"k", "n", "o", "w", "l", "e", "d", "g", "e">>, icon |-> "U+1F9E0"]
  >>

-----------------------------------------------------------------------------
(* Text primitives of the Python runtime *)

\* str.isspace / the regular expression class \s, on the characters used here
Whitespace == {" ", "\t", "\n", "\r"}

UpperCase == <<"A", "B", "C", "D", "E", "F", "G", "H", "I", "J", "K", "L", "M",
               "N", "O", "P", "Q", "R", "S", "T", "U", "V", "W", "X", "Y", "Z">>
LowerCase == <<"a", "b", "c", "d", "e", "f", "g", "h", "i", "j", "k", "l", "m",
               "n", "o", "p", "q", "r", "s", "t", "u", "v", "w", "x", "y", "z">>

LowerChar(c) ==
    IF \E k \in DOMAIN UpperCase : UpperCase[k] = c
    THEN LowerCase[CHOOSE k \in DOMAIN UpperCase : UpperCase[k] = c]
    ELSE c

\* str.lower()
lower(s) == [k \in 1..Len(s) |-> LowerChar(s[k])]

\* needle in hay (substring test)
Contains(needle, hay) ==
    \E p \in 0..(Len(hay) - Len(needle)) :
        \A k \in 1..Len(needle) : hay[p + k] = needle[k]

\* any(word in s for word in words)
AnyIn(words, s) == \E k \in DOMAIN words : Contains(words[k], s)

Min(S) == CHOOSE m \in S : \A n \in S : m <= n

\* str.strip()
strip(s) ==
    LET keep == {k \in 1..Len(s) : s[k] \notin Whitespace}
    IN  IF keep = {} THEN <<>>
        ELSE SubSeq(s, Min(keep), CHOOSE m \in keep : \A n \in keep : n <= m)

\* str.split('\n'): the pieces between line feeds, empty pieces included
RECURSIVE split(_)
split(s) ==
    LET nl == {k \in 1..Len(s) : s[k] = "\n"}
    IN  IF nl = {} THEN <<s>>
        ELSE <<SubSeq(s, 1, Min(nl) - 1)>> \o split(SubSeq(s, Min(nl) + 1, Len(s)))

\* str.replace(old, new) for one-character old and new
replace(s, old, new) == [k \in 1..Len(s) |-> IF s[k] = old THEN new ELSE s[k]]

\* str(i) for the slide numbers that occur
DigitChars == <<"0", "1", "2", "3", "4", "5", "6", "7", "8", "9">>
RECURSIVE str(_)
str(n) == IF n < 10 THEN <<DigitChars[n + 1]>>
          ELSE str(n \div 10) \o <<DigitChars[(n % 10) + 1]>>

-----------------------------------------------------------------------------
(* get_icon_for_title, pptx_generator.py 146-163 *)

\* for keyword, icon in ICON_MAP.items(): if keyword in title_lower: return icon
\* the remaining entries k.. are scanned in order; "" when none matches
RECURSIVE IconScanLast(_, _)
IconScanLast(k, title_lower) ==
    IF k < 1 THEN ""
    ELSE IF Contains(ICON_MAP[k].keyword, title_lower) THEN ICON_MAP[k].icon
    ELSE IconScanLast(k - 1, title_lower)

RECURSIVE IconScanFrom(_, _)
IconScanFrom(k, title_lower) ==
    IF k > Len(ICON_MAP) THEN ""
    ELSE IF Contains(ICON_MAP[k].keyword, title_lower) THEN ICON_MAP[k].icon
    ELSE IconScanFrom(k + 1, title_lower)

IconScanReversed(title_lower) == IconScanLast(Len(ICON_MAP), title_lower)

IconScan(title_lower) == IconScanFrom(1, title_lower)

StartWords == << <<"i", "n", "t", "r", "o">>, <<"s", "t", "a", "r", "t">>,
                 <<"b", "e", "g", "i", "n">>, <<"w", "e", "l", "c", "o", "m", "e">> >>
EndWords == << <<"e", "n", "d">>, <<"c", "o", "n", "c", "l", "u", "d", "e">>,
               <<"f", "i", "n", "a", "l">>, <<"s", "u", "m", "m", "a", "r", "y">> >>
ThankWords == << <<"t", "h", "a", "n", "k">>,
                 <<"q", "u", "e", "s", "t", "i", "o", "n", "s">>, <<"q", "&", "a">> >>

FallbackIconEndFirst(title_lower) ==
    IF AnyIn(EndWords, title_lower) THEN "U+1F3C1"
    ELSE IF AnyIn(StartWords, title_lower) THEN "U+1F4CA"
    ELSE IF AnyIn(ThankWords, title_lower) THEN "U+1F64F"
    ELSE ""

\* lines 155-163: the position words, tried when no ICON_MAP keyword occurs
FallbackIcon(title_lower) ==
    IF AnyIn(StartWords, title_lower) THEN "U+1F4CA"
    ELSE IF AnyIn(EndWords, title_lower) THEN "U+1F3C1"
    ELSE IF AnyIn(ThankWords, title_lower) THEN "U+1F64F"
    ELSE ""

get_icon_for_title(title) ==
    LET title_lower == lower(title)
        direct == IconScan(title_lower)
    IN  IF direct # "" THEN direct ELSE FallbackIcon(title_lower)

-----------------------------------------------------------------------------
(* clean_text_formatting, pptx_generator.py 165-176 *)
(* re.sub scans left to right; after a match it resumes behind the match,  *)
(* otherwise it copies one character and moves on.  "." matches any        *)
(* character but the line feed; "(.+?)" takes the shortest inner text.     *)

NoLineFeed(text, from, to) == \A k \in from..to : text[k] # "\n"

\* where the shortest match of \*\*(.+?)\*\* that starts at p closes
BoldClosers(text, p) ==
    {q \in (p + 3)..(Len(text) - 1) :
        text[q] = "*" /\ text[q + 1] = "*" /\ NoLineFeed(text, p + 2, q - 1)}

BoldAt(text, p) ==
    /\ p + 1 <= Len(text)
    /\ text[p] = "*" /\ text[p + 1] = "*"
    /\ BoldClosers(text, p) # {}

\* re.sub(r'\*\*(.+?)\*\*', r'\1', text), from position p
RECURSIVE SubBold(_, _)
SubBold(text, p) ==
    IF p > Len(text) THEN <<>>
    ELSE IF BoldAt(text, p)
         THEN LET q == Min(BoldClosers(text, p))
              IN  SubSeq(text, p + 2, q - 1) \o SubBold(text, q + 2)
         ELSE <<text[p]>> \o SubBold(text, p + 1)

\* where the shortest match of \*(.+?)\* that starts at p closes
ItalicClosers(text, p) ==
    {q \in (p + 2)..Len(text) : text[q] = "*" /\ NoLineFeed(text, p + 1, q - 1)}

ItalicAt(text, p) == text[p] = "*" /\ ItalicClosers(text, p) # {}

\* re.sub(r'\*(.+?)\*', r'\1', text), from position p
RECURSIVE SubItalic(_, _)
SubItalic(text, p) ==
    IF p > Len(text) THEN <<>>
    ELSE IF ItalicAt(text, p)
         THEN LET q == Min(ItalicClosers(text, p))
              IN  SubSeq(text, p + 1, q - 1) \o SubItalic(text, q + 1)
         ELSE <<text[p]>> \o SubItalic(text, p + 1)

\* the character class [\*\-U+2022]
BulletChars == {"*", "-", "U+2022"}

\* ^ under re.MULTILINE: the start of the text or just behind a line feed
LineStart(text, p) == p = 1 \/ text[p - 1] = "\n"

\* the first position at or behind p that holds no whitespace (\s* is greedy)
RECURSIVE SkipSpace(_, _)
SkipSpace(text, p) ==
    IF p <= Len(text) /\ text[p] \in Whitespace THEN SkipSpace(text, p + 1) ELSE p

\* re.sub(r'^[\*\-U+2022]\s*', '', text, flags=re.MULTILINE), from position p
RECURSIVE SubBullet(_, _)
SubBullet(text, p) ==
    IF p > Len(text) THEN <<>>
    ELSE IF LineStart(text, p) /\ text[p] \in BulletChars
         THEN SubBullet(text, SkipSpace(text, p + 1))
         ELSE <<text[p]>> \o SubBullet(text, p + 1)

clean_text_formatting_bullets_first(text) ==
    strip(SubItalic(SubBold(SubBullet(text, 1), 1), 1))

clean_text_formatting(text) ==
    strip(SubBullet(SubItalic(SubBold(text, 1), 1), 1))

\* lines 411-412:
\* lines = [line.strip() for line in cleaned_content.split('\n') if line.strip()]
ContentLines(content) ==
    LET pieces == split(clean_text_formatting(content))
        kept == SelectSeq(pieces, LAMBDA line : strip(line) # <<>>)
    IN  [k \in 1..Len(kept) |-> strip(kept[k])]

-----------------------------------------------------------------------------
(* Shapes and slides as python-pptx holds them *)

NoValue == <<>>
NoColor == <<>>
White == <<255, 255, 255>>

\* slide.shapes.add_shape(kind, left, top, width, height): nothing styled yet
AutoShape(name, kind, left, top, width, height) ==
    [name |-> name, kind |-> kind, left |-> left, top |-> top,
     width |-> width, height |-> height,
     fill |-> NoColor, transparency |-> 0, line |-> "default",
     line_rgb |-> NoColor, shadow |-> FALSE, rotation |-> 0,
     paragraphs |-> <<>>]

Paragraph(text, size, bold, rgb, align, bullet) ==
    [text |-> text, size |-> size, bold |-> bold, rgb |-> rgb,
     align |-> align, bullet |-> bullet]

\* a paragraph nothing was written to
BlankParagraph == Paragraph(<<>>, 0, FALSE, NoColor, "default", FALSE)

\* slide.shapes.add_textbox(left, top, width, height): one blank paragraph
TextBox(name, left, top, width, height) ==
    [AutoShape(name, "textbox", left, top, width, height)
        EXCEPT !.line = "none", !.paragraphs = <<BlankParagraph>>]

\* prs.slides.add_slide(prs.slide_layouts[6])
BlankSlide == [background |-> [kind |-> "layout"], shapes |-> <<>>]

AddShapes(slide, new) == [slide EXCEPT !.shapes = @ \o new]

\* the soft drop shadow all three cards ask for; unsupported, the except
\* clause leaves the shape as styled so far
WithShadow(shape, unsup) ==
    IF "shadow" \in unsup THEN shape ELSE [shape EXCEPT !.shadow = TRUE]

-----------------------------------------------------------------------------
(* apply_gradient_background, pptx_generator.py 178-195 *)

apply_gradient_background(slide, colors, unsup) ==
    IF "gradient" \in unsup
    THEN [slide EXCEPT !.background = [kind |-> "solid", rgb |-> colors.bg_start]]
    ELSE [slide EXCEPT !.background =
            [kind |-> "gradient", angle |-> 45,
             start |-> colors.bg_start, end |-> colors.bg_end]]

(* add_decorative_bar, pptx_generator.py 197-215 *)

add_decorative_bar(slide, colors, unsup) ==
    IF "bottom_bar" \in unsup \/ Len(slide.shapes) = 0
    THEN slide
    ELSE AddShapes(slide,
            <<[AutoShape("bottom_bar", "rectangle", 0,
                         slide.shapes[1].top + slide.shapes[1].height - 15,
                         1000, 15)
                 EXCEPT !.fill = colors.accent_color, !.line = "none"]>>)

-----------------------------------------------------------------------------
(* generate_pptx, pptx_generator.py 219-454 *)

ResolveThemeWrongDefault(t) == IF t \notin DOMAIN THEMES THEN "modern_dark" ELSE t

\* lines 223-224: if theme not in THEMES: theme = 'professional_blue'
ResolveTheme(t) == IF t \notin DOMAIN THEMES THEN "professional_blue" ELSE t

\* lines 227-229
NewPresentation == [slide_width |-> 1000, slide_height |-> 750, slides |-> <<>>]

\* lines 238-258: the soft overlay card of the title slide
TitleCard(unsup) ==
    IF "title_card" \in unsup THEN <<>>
    ELSE <<WithShadow([AutoShape("title_card", "rounded_rectangle", 70, 160, 860, 320)
                         EXCEPT !.fill = White, !.transparency = 15,
                                !.line = "none"], unsup)>>

\* lines 260-274
TopicBox(t, colors) ==
    <<[TextBox("title_box", 100, 210, 800, 150)
         EXCEPT !.paragraphs =
            <<Paragraph(t, 50, TRUE, colors.title_color, "center", FALSE)>>]>>

\* lines 276-285: subtitle_top = top + height + Inches(0.2)
SubtitleText == <<"A", "I", "-", "G", "e", "n", "e", "r", "a", "t", "e", "d", " ",
                  "P", "r", "e", "s", "e", "n", "t", "a", "t", "i", "o", "n">>

SubtitleBox(colors) ==
    <<[TextBox("subtitle_box", 100, 210 + 150 + 20, 800, 70)
         EXCEPT !.paragraphs =
            <<Paragraph(SubtitleText, 22, FALSE, colors.text_color, "center", FALSE)>>]>>

\* lines 231-285
TitleSlide(t, colors, unsup) ==
    LET s0 == apply_gradient_background(BlankSlide, colors, unsup)
    IN  AddShapes(s0, TitleCard(unsup) \o TopicBox(t, colors) \o SubtitleBox(colors))

\* lines 296-311: the diagonal overlay; when rotation is unsupported the shape
\* stays, unrotated and with its outline untouched
Overlay(colors, unsup) ==
    IF "overlay" \in unsup THEN <<>>
    ELSE LET filled == [AutoShape("overlay", "rectangle", -100, -50, 600, 850)
                          EXCEPT !.fill = colors.bg_end, !.transparency = 35]
         IN  IF "rotation" \in unsup THEN <<filled>>
             ELSE <<[filled EXCEPT !.rotation = -8, !.line = "none"]>>

\* lines 313-336: the rounded title bar
TitleBar(colors, unsup) ==
    IF "title_bar" \in unsup THEN <<>>
    ELSE <<WithShadow([AutoShape("title_bar", "rounded_rectangle", 50, 30, 900, 110)
                         EXCEPT !.fill = White, !.transparency = 5,
                                !.line = "solid",
                                !.line_rgb = colors.accent_color], unsup)>>

\* lines 338-353: the title, behind its icon when there is one
SlideTitleText(title) ==
    LET icon == get_icon_for_title(title)
    IN  IF icon # "" THEN <<icon, " ", " ">> \o title ELSE title

\* lines 341-358
SlideTitleBox(title, colors) ==
    <<[TextBox("title_box", 70, 45, 860, 90)
         EXCEPT !.paragraphs =
            <<Paragraph(SlideTitleText(title), 34, TRUE, colors.title_color,
                        "default", FALSE)>>]>>

\* lines 360-373: the thin accent line under the header
AccentLine(colors, unsup) ==
    IF "underline" \in unsup THEN <<>>
    ELSE <<[AutoShape("accent_line", "rectangle", 70, 140, 860, 6)
              EXCEPT !.fill = colors.accent_color, !.line = "none"]>>

\* lines 378-399: the content card
ContentCard(colors, unsup) ==
    IF "content_card" \in unsup THEN <<>>
    ELSE <<WithShadow([AutoShape("content_card", "rounded_rectangle", 80, 175, 840, 480)
                         EXCEPT !.fill = White, !.transparency = 2,
                                !.line = "none"], unsup)>>

\* the loop writing every line to paragraphs[0]: the last line is what stays
BulletParagraphsOverwritten(lines, colors) ==
    IF lines = <<>> THEN <<BlankParagraph>>
    ELSE <<Paragraph(lines[Len(lines)], 22, FALSE, colors.text_color, "default", TRUE)>>

\* lines 414-427: paragraphs[0] for the first line, add_paragraph() for the others
BulletParagraphs(lines, colors) ==
    IF lines = <<>> THEN <<BlankParagraph>>
    ELSE [j \in 1..Len(lines) |->
            Paragraph(lines[j], 22, FALSE, colors.text_color, "default", TRUE)]

\* lines 401-427
ContentBox(content, colors) ==
    <<[TextBox("content_box", 100, 190, 800, 440)
         EXCEPT !.paragraphs = BulletParagraphs(ContentLines(content), colors)]>>

\* line 376: content = section.get('content', '')
SectionContent(section) ==
    IF "content" \in DOMAIN section THEN section.content ELSE <<>>

ContentAreaAlways(section, colors, unsup) ==
    ContentCard(colors, unsup) \o ContentBox(SectionContent(section), colors)

\* lines 375-427: if content: card and text box
ContentArea(section, colors, unsup) ==
    IF SectionContent(section) # <<>>
    THEN ContentCard(colors, unsup) \o ContentBox(SectionContent(section), colors)
    ELSE <<>>

\* lines 432-447
SlideNumber(n, colors, unsup) ==
    IF "slide_number" \in unsup THEN <<>>
    ELSE <<[TextBox("slide_number", 900, 700, 50, 30)
              EXCEPT !.paragraphs =
                 <<Paragraph(str(n), 14, FALSE, colors.text_color, "right", FALSE)>>]>>

\* lines 288-447: the body of the loop for section number n
ContentSlide(section, n, colors, unsup) ==
    LET s0 == apply_gradient_background(BlankSlide, colors, unsup)
        s1 == AddShapes(s0, Overlay(colors, unsup) \o TitleBar(colors, unsup)
                            \o SlideTitleBox(section.title, colors)
                            \o AccentLine(colors, unsup)
                            \o ContentArea(section, colors, unsup))
        s2 == add_decorative_bar(s1, colors, unsup)
    IN  AddShapes(s2, SlideNumber(n, colors, unsup))

-----------------------------------------------------------------------------
(* The checked inputs *)

\* the ten decorative capabilities a render target may lack: the gradient fill
\* of the background, the shadow and rotation effects, and the allocation of
\* each decorative shape
Capabilities ==
    {"gradient", "title_card", "overlay", "title_bar", "shadow", "rotation",
     "underline", "content_card", "bottom_bar", "slide_number"}

TopicPool == { <<"M", "y", " ", "A", "I", " ", "T", "a", "l", "k">> }

TitleWords ==
    << <<"T", "r", "a", "d", "i", "n", "g">>,
       <<"S", "t", "r", "a", "t", "e", "g", "y">>,
       <<"A", "I">>,
       <<"T", "R", "A", "I", "N", "I", "N", "G">>,
       <<"I", "n", "t", "r", "o">>,
       <<"E", "n", "d">>,
       <<"T", "h", "a", "n", "k", "s">>,
       <<"W", "e", "l", "c", "o", "m", "e">>,
       <<"P", "l", "u", "s">>,
       <<"R", "e", "c", "o", "r", "d">> >>

\* the words ws[1], ..., ws[n] with one space between them
RECURSIVE JoinWords(_)
JoinWords(ws) ==
    IF Len(ws) = 0 THEN <<>>
    ELSE IF Len(ws) = 1 THEN ws[1]
    ELSE ws[1] \o <<" ">> \o JoinWords(Tail(ws))

Titles ==
    {JoinWords([k \in DOMAIN f |-> TitleWords[f[k]]]) :
        f \in UNION {[1..n -> DOMAIN TitleWords] : n \in 1..MaxTitleWords}}

ContentAlphabet == {"*", "-", "a", " ", "\n"}

\* "**Bold** and *italic*\n- item one\n* item two\n\n"
ExampleContent ==
    <<"*", "*", "B", "o", "l", "d", "*", "*", " ", "a", "n", "d", " ",
      "*", "i", "t", "a", "l", "i", "c", "*", "\n",
      "-", " ", "i", "t", "e", "m", " ", "o", "n", "e", "\n",
      "*", " ", "i", "t", "e", "m", " ", "t", "w", "o", "\n", "\n">>

\* "U+2022 a\n\t- b\r\n-\tc"
GlyphBulletContent ==
    <<"U+2022", " ", "a", "\n", "\t", "-", " ", "b", "\r", "\n", "-", "\t", "c">>

Contents ==
    UNION {[1..n -> ContentAlphabet] : n \in 0..MaxContentLen}
        \cup {ExampleContent, GlyphBulletContent}

\* sections an outline is made of: empty content, repeated lines, content
\* that normalizes to nothing
SectionPool ==
    { [id |-> 1, title |-> <<"I", "n", "t", "r", "o">>, content |-> <<>>],
      [id |-> 2, title |-> <<"D", "a", "t", "a">>,
       content |-> <<"-", " ", "a", "\n", "-", " ", "a">>],
      [id |-> 3, title |-> <<"P", "l", "u", "s">>, content |-> <<"-", " ", "\n">>] }

\* a section dictionary that has no 'content' key
BareSection == [id |-> 4, title |-> <<"R", "e", "c", "o", "r", "d">>]

\* the two sections every theme id is tried on
FaultPool ==
    { [id |-> 1, title |-> <<"I", "n", "t", "r", "o">>, content |-> <<>>],
      [id |-> 2, title |-> <<"D", "a", "t", "a">>,
       content |-> <<"-", " ", "a", "\n", "-", " ", "a">>] }

Outlines(pool) == UNION {[1..n -> pool] : n \in 0..MaxSections}

\* the outlines every combination of missing capabilities is tried on
FaultOutlines ==
    { <<>>,
      <<[id |-> 2, title |-> <<"D", "a", "t", "a">>,
         content |-> <<"-", " ", "a", "\n", "-", " ", "a">>]>>,
      <<[id |-> 1, title |-> <<"I", "n", "t", "r", "o">>, content |-> <<>>],
        [id |-> 2, title |-> <<"D", "a", "t", "a">>,
         content |-> <<"-", " ", "a", "\n", "-", " ", "a">>]>>,
      <<[id |-> 3, title |-> <<"P", "l", "u", "s">>, content |-> <<"-", " ", "\n">>],
        [id |-> 2, title |-> <<"D", "a", "t", "a">>,
         content |-> <<"-", " ", "a", "\n", "-", " ", "a">>]>> }

ThemeIds == DOMAIN THEMES \cup {"", "sunset"}

TheTopic == CHOOSE t \in TopicPool : TRUE

\* JSON bodies of POST /api/export-document: with and without the theme field
HttpInputs ==
    {[request |-> [topic |-> TheTopic, sections |-> s, docType |-> "pptx"],
      unsupported |-> {}] : s \in Outlines(SectionPool)}
    \cup
    {[request |-> [topic |-> TheTopic, sections |-> s, docType |-> "pptx",
                   theme |-> t],
      unsupported |-> {}] : s \in Outlines(FaultPool), t \in ThemeIds}

\* calls generate_pptx(topic, sections[, theme])
DirectInputs ==
    \* every theme id, present or not, and the defaulted parameter
    {[args |-> [topic |-> TheTopic, sections |-> s], unsupported |-> {}] :
        s \in Outlines(SectionPool \cup {BareSection})}
    \cup
    {[args |-> [topic |-> TheTopic, sections |-> s, theme |-> t],
      unsupported |-> {}] : s \in Outlines(FaultPool), t \in ThemeIds}
    \cup
    \* every title
    {[args |-> [topic |-> TheTopic,
                sections |-> <<[id |-> 1, title |-> t, content |-> <<"a">>]>>],
      unsupported |-> {}] : t \in Titles}
    \cup
    \* every content
    {[args |-> [topic |-> TheTopic,
                sections |-> <<[id |-> 1, title |-> <<"P", "l", "u", "s">>,
                                content |-> c]>>],
      unsupported |-> {}] : c \in Contents}
    \cup
    \* every combination of missing capabilities
    {[args |-> [topic |-> TheTopic, sections |-> s, theme |-> "modern_dark"],
      unsupported |-> u] : s \in FaultOutlines, u \in SUBSET Capabilities}

-----------------------------------------------------------------------------
(* export_document, main.py 138-195, and the steps of generate_pptx *)

\* ExportRequest, main.py 57-60: the fields the model declares are kept
ParseExportRequest(json) ==
    [topic |-> json.topic, sections |-> json.sections, docType |-> json.docType]

\* main.py 150-157
SectionsData(secs) ==
    [k \in 1..Len(secs) |->
        [id |-> secs[k].id, title |-> secs[k].title, content |-> secs[k].content]]

\* pptx_generator.py 219: theme: str = 'professional_blue'
DefaultTheme == "professional_blue"

\* the value bound to the parameter theme when the call is entered
ThemeParameter(a) == IF "theme" \in DOMAIN a THEN a.theme ELSE DefaultTheme

\* main.py 171: generate_pptx(request.topic, sections_data): two arguments
ExportArguments(req) ==
    [topic |-> req.topic, sections |-> SectionsData(req.sections)]

Init ==
    /\ pc = "idle"
    /\ caller = "none"
    /\ request = NoValue
    /\ unsupported = {}
    /\ args = NoValue
    /\ topic = NoValue
    /\ sections = NoValue
    /\ theme = ""
    /\ theme_colors = NoValue
    /\ prs = NoValue
    /\ i = 0
    /\ file_bytes = NoValue
    /\ exc = ""
    /\ response = NoValue
    /\ calls = <<>>
    /\ module_THEMES = THEMES
    /\ module_ICON_MAP = ICON_MAP

\* generate_pptx, lines 219-229
Enter(t, secs, th) ==
    /\ topic' = t
    /\ sections' = secs
    /\ theme' = ResolveTheme(th)
    /\ theme_colors' = THEMES[ResolveTheme(th)]
    /\ prs' = NewPresentation
    /\ i' = 0
    /\ pc' = "title_slide"
    /\ UNCHANGED <<file_bytes, exc, response>>

\* main.py 138-171, up to the call
export_document ==
    /\ UNCHANGED <<calls, module_THEMES, module_ICON_MAP>>
    /\ pc = "idle"
    /\ \E inp \in HttpInputs :
        LET req == ParseExportRequest(inp.request)
        IN  /\ req.docType # "docx"
            /\ caller' = "http"
            /\ request' = inp.request
            /\ unsupported' = inp.unsupported
            /\ args' = ExportArguments(req)
            /\ Enter(req.topic, SectionsData(req.sections), ThemeParameter(args'))

\* a call of generate_pptx from Python code
call_generate_pptx ==
    /\ UNCHANGED <<calls, module_THEMES, module_ICON_MAP>>
    /\ pc = "idle"
    /\ \E inp \in DirectInputs :
        /\ caller' = "direct"
        /\ request' = NoValue
        /\ unsupported' = inp.unsupported
        /\ args' = inp.args
        /\ Enter(inp.args.topic, inp.args.sections, ThemeParameter(inp.args))

\* an exception leaves generate_pptx: its locals are gone, nothing is returned
Raise(point) ==
    /\ pc' = "raised"
    /\ exc' = point
    /\ prs' = NoValue
    /\ UNCHANGED <<caller, request, unsupported, args, topic, sections, theme,
                   theme_colors, i, file_bytes, response>>

\* the same with the shadow of the title bar set outside its try block
HardPointsShadowUnguarded(content) ==
    {"add_slide", "title_text"}
        \cup (IF content # <<>> THEN {"body_text"} ELSE {})
        \cup (IF "gradient" \in unsupported THEN {"solid_background"} ELSE {})
        \cup (IF "shadow" \in unsupported THEN {"shadow"} ELSE {})

\* the statements outside every try block that may raise while a slide is built
HardPoints(content) ==
    {"add_slide", "title_text"}
        \cup (IF content # <<>> THEN {"body_text"} ELSE {})
        \cup (IF "gradient" \in unsupported THEN {"solid_background"} ELSE {})

\* lines 231-285
BuildTitleSlide ==
    /\ UNCHANGED <<calls, module_THEMES, module_ICON_MAP>>
    /\ pc = "title_slide"
    /\ \E hard \in {"none"} \cup HardPoints(<<>>) :
        IF hard # "none" THEN Raise(hard)
        ELSE /\ prs' = [prs EXCEPT !.slides =
                          Append(@, TitleSlide(topic, theme_colors, unsupported))]
             /\ i' = 1
             /\ pc' = "content_slides"
             /\ UNCHANGED <<caller, request, unsupported, args, topic, sections, theme,
                            theme_colors, file_bytes, exc, response>>

\* the loop body with "if not content: continue" in front
BuildContentSlideSkippingEmpty ==
    /\ UNCHANGED <<calls, module_THEMES, module_ICON_MAP>>
    /\ pc = "content_slides"
    /\ i <= Len(sections)
    /\ prs' = [prs EXCEPT !.slides =
                 IF SectionContent(sections[i]) = <<>> THEN @
                 ELSE Append(@, ContentSlide(sections[i], i, theme_colors,
                                             unsupported))]
    /\ i' = i + 1
    /\ UNCHANGED <<pc, caller, request, unsupported, args, topic, sections,
                   theme, theme_colors, file_bytes, exc, response>>

\* lines 288-447, one pass of the loop
BuildContentSlide ==
    /\ UNCHANGED <<calls, module_THEMES, module_ICON_MAP>>
    /\ pc = "content_slides"
    /\ i <= Len(sections)
    /\ \E hard \in {"none"} \cup HardPoints(SectionContent(sections[i])) :
        IF hard # "none" THEN Raise(hard)
        ELSE /\ prs' = [prs EXCEPT !.slides =
                          Append(@, ContentSlide(sections[i], i, theme_colors,
                                                 unsupported))]
             /\ i' = i + 1
             /\ UNCHANGED <<pc, caller, request, unsupported, args, topic, sections,
                            theme, theme_colors, file_bytes, exc, response>>

\* lines 449-454: prs.save(file_stream); return file_stream.getvalue()
SavePresentation ==
    /\ UNCHANGED <<calls, module_THEMES, module_ICON_MAP>>
    /\ pc = "content_slides"
    /\ i > Len(sections)
    /\ \E hard \in {"none", "save"} :
        IF hard # "none" THEN Raise(hard)
        ELSE /\ file_bytes' = prs
             /\ prs' = NoValue
             /\ pc' = "returned"
             /\ UNCHANGED <<caller, request, unsupported, args, topic, sections, theme,
                            theme_colors, i, exc, response>>

PptxMediaType ==
    "application/vnd.openxmlformats-officedocument.presentationml.presentation"

\* main.py 172-187
ExportRespond ==
    /\ UNCHANGED <<calls, module_THEMES, module_ICON_MAP>>
    /\ pc = "returned"
    /\ caller = "http"
    /\ response' =
        [status_code |-> 200, body |-> file_bytes, media_type |-> PptxMediaType,
         filename |-> replace(request.topic, " ", "_") \o <<".", "p", "p", "t", "x">>]
    /\ pc' = "done"
    /\ UNCHANGED <<caller, request, unsupported, args, topic, sections, theme,
                   theme_colors, prs, i, file_bytes, exc>>

\* the except clause answering with an empty file instead
ExportErrorSwallowed ==
    /\ UNCHANGED <<calls, module_THEMES, module_ICON_MAP>>
    /\ pc = "raised"
    /\ caller = "http"
    /\ response' =
        [status_code |-> 200, body |-> NoValue, media_type |-> PptxMediaType,
         filename |-> replace(request.topic, " ", "_") \o <<".", "p", "p", "t", "x">>]
    /\ pc' = "done"
    /\ UNCHANGED <<caller, request, unsupported, args, topic, sections, theme,
                   theme_colors, prs, i, file_bytes, exc>>

\* main.py 189-195: raise HTTPException(status_code=500, detail=str(e))
ExportError ==
    /\ UNCHANGED <<calls, module_THEMES, module_ICON_MAP>>
    /\ pc = "raised"
    /\ caller = "http"
    /\ response' = [status_code |-> 500, detail |-> exc]
    /\ pc' = "done"
    /\ UNCHANGED <<caller, request, unsupported, args, topic, sections, theme,
                   theme_colors, prs, i, file_bytes, exc>>

Next ==
    \/ export_document
    \/ call_generate_pptx
    \/ BuildTitleSlide
    \/ BuildContentSlide
    \/ SavePresentation
    \/ ExportRespond
    \/ ExportError

Spec == Init /\ [][Next]_vars

-----------------------------------------------------------------------------
(* Concurrent calls of generate_pptx.  FastAPI runs a handler per request;  *)
(* every call has its own locals (lines 219-454 assign to no global), the   *)
(* module-level THEMES and ICON_MAP are what the calls share.               *)

Calls == 1..MaxCalls

\* the arguments the concurrent calls are made with
ConcurrentArgs ==
    { [topic |-> TheTopic,
       sections |-> <<[id |-> 1, title |-> <<"I", "n", "t", "r", "o">>,
                       content |-> <<>>]>>,
       theme |-> "modern_dark"],
      [topic |-> TheTopic,
       sections |-> <<[id |-> 2, title |-> <<"D", "a", "t", "a">>,
                       content |-> <<"-", " ", "a", "\n", "-", " ", "a">>],
                      [id |-> 3, title |-> <<"P", "l", "u", "s">>,
                       content |-> <<"-", " ", "\n">>]>>],
      [topic |-> TheTopic,
       sections |-> <<[id |-> 2, title |-> <<"D", "a", "t", "a">>,
                       content |-> <<"-", " ", "a", "\n", "-", " ", "a">>]>>,
       theme |-> "modern_dark"] }

\* the render targets the concurrent calls are tried on
ConcurrentTargets == { {}, {"overlay", "shadow"} }

IdleCall ==
    [pc |-> "idle", args |-> NoValue, theme |-> "", theme_colors |-> NoValue,
     prs |-> NoValue, i |-> 0, result |-> NoValue, exc |-> ""]

\* a dark theme adapted in place: theme_colors is the dictionary THEMES[theme]
\* itself, so the assignment lands in the catalog
ThemesLeftByAdaptingInPlace(themes, th) ==
    IF themes[th].bg_start[1] + themes[th].bg_start[2] + themes[th].bg_start[3] < 400
    THEN [themes EXCEPT ![th].text_color = <<255, 255, 255>>]
    ELSE themes

\* lines 223-225: THEMES is tested and indexed; neither it nor theme_colors
\* is assigned to anywhere in generate_pptx
ThemesLeftBy(themes, th) == themes

InitConcurrent ==
    /\ pc = "idle"
    /\ caller = "none"
    /\ request = NoValue
    /\ unsupported \in ConcurrentTargets
    /\ args = NoValue
    /\ topic = NoValue
    /\ sections = NoValue
    /\ theme = ""
    /\ theme_colors = NoValue
    /\ prs = NoValue
    /\ i = 0
    /\ file_bytes = NoValue
    /\ exc = ""
    /\ response = NoValue
    /\ calls = [p \in Calls |-> IdleCall]
    /\ module_THEMES = THEMES
    /\ module_ICON_MAP = ICON_MAP

SequentialUnchanged ==
    UNCHANGED <<pc, caller, request, unsupported, args, topic, sections, theme,
                theme_colors, prs, i, file_bytes, exc, response>>

CallRaise(p, point) ==
    /\ calls' = [calls EXCEPT ![p].pc = "raised", ![p].exc = point,
                              ![p].prs = NoValue]
    /\ UNCHANGED <<module_THEMES, module_ICON_MAP>>

\* lines 219-229 in call p
CallEnter(p) ==
    /\ calls[p].pc = "idle"
    /\ \E a \in ConcurrentArgs :
        LET th == ResolveTheme(ThemeParameter(a))
        IN  /\ calls' = [calls EXCEPT ![p] =
                    [pc |-> "title_slide", args |-> a, theme |-> th,
                     theme_colors |-> module_THEMES[th],
                     prs |-> NewPresentation, i |-> 0,
                     result |-> NoValue, exc |-> ""]]
            /\ module_THEMES' = ThemesLeftBy(module_THEMES, th)
    /\ UNCHANGED module_ICON_MAP
    /\ SequentialUnchanged

\* lines 231-285 in call p
CallTitleSlide(p) ==
    /\ calls[p].pc = "title_slide"
    /\ \E hard \in {"none"} \cup HardPoints(<<>>) :
        IF hard # "none" THEN CallRaise(p, hard)
        ELSE /\ calls' = [calls EXCEPT
                    ![p].prs.slides =
                        Append(@, TitleSlide(calls[p].args.topic,
                                             calls[p].theme_colors, unsupported)),
                    ![p].i = 1,
                    ![p].pc = "content_slides"]
             /\ UNCHANGED <<module_THEMES, module_ICON_MAP>>
    /\ SequentialUnchanged

\* lines 288-447 in call p, one pass of the loop
CallContentSlide(p) ==
    /\ calls[p].pc = "content_slides"
    /\ calls[p].i <= Len(calls[p].args.sections)
    /\ LET section == calls[p].args.sections[calls[p].i]
       IN  \E hard \in {"none"} \cup HardPoints(SectionContent(section)) :
            IF hard # "none" THEN CallRaise(p, hard)
            ELSE /\ calls' = [calls EXCEPT
                        ![p].prs.slides =
                            Append(@, ContentSlide(section, calls[p].i,
                                                   calls[p].theme_colors,
                                                   unsupported)),
                        ![p].i = @ + 1]
                 /\ UNCHANGED <<module_THEMES, module_ICON_MAP>>
    /\ SequentialUnchanged

\* lines 449-454 in call p
CallSave(p) ==
    /\ calls[p].pc = "content_slides"
    /\ calls[p].i > Len(calls[p].args.sections)
    /\ \E hard \in {"none", "save"} :
        IF hard # "none" THEN CallRaise(p, hard)
        ELSE /\ calls' = [calls EXCEPT ![p].result = calls[p].prs,
                                      ![p].prs = NoValue,
                                      ![p].pc = "returned"]
             /\ UNCHANGED <<module_THEMES, module_ICON_MAP>>
    /\ SequentialUnchanged

NextConcurrent ==
    \/ \E p \in Calls : CallEnter(p)
    \/ \E p \in Calls : CallTitleSlide(p)
    \/ \E p \in Calls : CallContentSlide(p)
    \/ \E p \in Calls : CallSave(p)

SpecConcurrent == InitConcurrent /\ [][NextConcurrent]_vars

-----------------------------------------------------------------------------
(* What the claims speak about *)

\* generate_pptx returned its bytes
Serialized == pc = "returned" \/ (pc = "done" /\ exc = "")

\* a presentation exists: the one under construction or the one returned
HasDeck == pc \in {"title_slide", "content_slides"} \/ Serialized

Deck == IF pc \in {"title_slide", "content_slides"} THEN prs ELSE file_bytes

\* the content slides built so far are slides 2 .. Len(Deck.slides)
BuiltSections == IF HasDeck THEN 1..(Len(Deck.slides) - 1) ELSE {}

SlideOf(k) == Deck.slides[k + 1]

Named(slide, n) == SelectSeq(slide.shapes, LAMBDA s : s.name = n)

Has(slide, n) == Named(slide, n) # <<>>

\* the text of the first paragraph of the slide's shape n
TextOf(slide, n) == Named(slide, n)[1].paragraphs[1].text

EndsWith(text, tail) ==
    /\ Len(text) >= Len(tail)
    /\ SubSeq(text, Len(text) - Len(tail) + 1, Len(text)) = tail

-----------------------------------------------------------------------------
\* C1: the serialized deck of an outline with N sections holds exactly N+1
\* slides: first the title slide with the topic, then one content slide per
\* section, the k-th carrying the title of the k-th section, also for N = 0
\* and for sections with empty content.
ThmC1_SlideCount ==
    Serialized =>
        /\ Len(file_bytes.slides) = Len(sections) + 1
        /\ Has(file_bytes.slides[1], "subtitle_box")
        /\ TextOf(file_bytes.slides[1], "title_box") = topic
        /\ \A k \in 1..Len(sections) :
            /\ ~Has(file_bytes.slides[k + 1], "subtitle_box")
            /\ Len(Named(file_bytes.slides[k + 1], "title_box")) = 1
            /\ EndsWith(TextOf(file_bytes.slides[k + 1], "title_box"),
                        sections[k].title)

\* a deck of two sections with different titles, the first with empty content
WitC1_TwoSections ==
    /\ Serialized
    /\ Len(sections) >= 2
    /\ sections[1].title # sections[2].title
    /\ SectionContent(sections[1]) = <<>>
    /\ SectionContent(sections[2]) # <<>>

-----------------------------------------------------------------------------
\* the decorative shapes of a content slide and the capability each needs
DecorationOf ==
    [overlay |-> "overlay", title_bar |-> "title_bar", accent_line |-> "underline",
     bottom_bar |-> "bottom_bar", slide_number |-> "slide_number"]

BackgroundDegraded(slide) ==
    IF "gradient" \in unsupported
    THEN slide.background.kind = "solid"
    ELSE slide.background.kind = "gradient"

\* every shape with a fill of its own shows it, shadow or rotation or not
SolidWhereDrawn(slide) ==
    \A k \in 1..Len(slide.shapes) :
        slide.shapes[k].kind # "textbox" => slide.shapes[k].fill # NoColor

-----------------------------------------------------------------------------
HardFailures == {"add_slide", "title_text", "body_text", "save"}

\* C3: a failure of slide allocation, of writing a title or body text or of
\* the serialization leaves generate_pptx as an exception: no bytes are
\* returned, the presentation under construction is gone, no step of the
\* generator runs again, and export_document answers with status 500 and the
\* message of the error.
ThmC3_HardFailurePropagates ==
    /\ [](pc = "raised" => (file_bytes = NoValue /\ prs = NoValue))
    /\ []((pc = "done" /\ exc # "") =>
            (/\ response.status_code = 500
             /\ response.detail = exc
             /\ file_bytes = NoValue))
    /\ [][pc = "raised" =>
            (/\ pc' = "done"
             /\ caller = "http"
             /\ exc' = exc
             /\ response'.status_code = 500)]_vars

\* export_document answered 500 after the save failed behind two built slides
WitC3_SaveFailed ==
    /\ pc = "done"
    /\ caller = "http"
    /\ exc = "save"
    /\ Len(sections) >= 1
    /\ response.status_code = 500

-----------------------------------------------------------------------------
\* the palette the claim expects for the theme id of the call
ExpectedPalette(a) ==
    IF "theme" \in DOMAIN a /\ a.theme \in DOMAIN THEMES
    THEN THEMES[a.theme]
    ELSE THEMES["professional_blue"]

\* C4: theme resolution never raises: a call with no theme id or with one that
\* is no key of THEMES goes on with the palette of professional_blue, a call
\* with a key of THEMES with exactly that palette, and the slides are drawn
\* with it.
ThmC4_ThemeResolution ==
    /\ (caller = "direct" /\ pc = "raised") =>
            exc \in HardFailures \cup {"solid_background"}
    /\ (caller = "direct" /\ pc # "idle") => theme_colors = ExpectedPalette(args)
    /\ (caller = "direct" /\ HasDeck) =>
        \A k \in 1..Len(Deck.slides) :
            /\ Named(Deck.slides[k], "title_box")[1].paragraphs[1].rgb
                 = ExpectedPalette(args).title_color
            /\ Deck.slides[k].background.kind = "gradient" =>
                /\ Deck.slides[k].background.start = ExpectedPalette(args).bg_start
                /\ Deck.slides[k].background.end = ExpectedPalette(args).bg_end

\* a deck returned for an id that is no key of THEMES
WitC4_UnknownTheme ==
    /\ Serialized
    /\ caller = "direct"
    /\ "theme" \in DOMAIN args
    /\ args.theme = "sunset"
    /\ Len(file_bytes.slides) >= 2

-----------------------------------------------------------------------------
\* C5: the theme id of the export request decides the palette of the deck: a
\* request naming a key of THEMES gets that theme's colors, only a missing or
\* unknown id gets the default theme.
CexC5_RequestThemeDecidesPalette ==
    /\ (caller = "http" /\ pc # "idle") => theme_colors = ExpectedPalette(request)
    /\ (caller = "http" /\ HasDeck) =>
        \A k \in 1..Len(Deck.slides) :
            Named(Deck.slides[k], "title_box")[1].paragraphs[1].rgb
                = ExpectedPalette(request).title_color

-----------------------------------------------------------------------------
ChannelSum(rgb) == rgb[1] + rgb[2] + rgb[3]

NearWhite(rgb) == \A c \in 1..3 : rgb[c] >= 200

DarkNeutralGray(rgb) == rgb[1] = rgb[2] /\ rgb[2] = rgb[3] /\ rgb[1] < 128

\* the colors of every paragraph of the slide's shape n
ParagraphColors(slide, n) ==
    {Named(slide, n)[1].paragraphs[j].rgb :
        j \in 1..Len(Named(slide, n)[1].paragraphs)}

\* C6: a theme whose bg_start channels sum to less than 400 is rendered dark:
\* title and text colors near-white, header bar and content card filled with
\* dark neutral grays; from 400 on, header bar and content card are white and
\* the theme's own title_color and text_color are used.
CexC6_DarkThemeAdapted ==
    HasDeck =>
        \A k \in BuiltSections :
            LET s == SlideOf(k)
                dark == ChannelSum(THEMES[theme].bg_start) < 400
                fills == {Named(s, n)[1].fill :
                            n \in {m \in {"title_bar", "content_card"} : Has(s, m)}}
                body == IF Has(s, "content_box") /\ ContentLines(SectionContent(sections[k])) # <<>>
                        THEN ParagraphColors(s, "content_box") ELSE {}
            IN  IF dark
                THEN /\ \A f \in fills : DarkNeutralGray(f)
                     /\ \A c \in ParagraphColors(s, "title_box") \cup body : NearWhite(c)
                ELSE /\ \A f \in fills : f = White
                     /\ ParagraphColors(s, "title_box") = {THEMES[theme].title_color}
                     /\ \A c \in body : c = THEMES[theme].text_color

-----------------------------------------------------------------------------
\* the entries of ICON_MAP whose keyword occurs in the lower-cased title
KeywordHits(title) ==
    LET t == lower(title)
    IN  {k \in DOMAIN ICON_MAP : Contains(ICON_MAP[k].keyword, t)}

\* where the word first occurs in the text (the word occurs)
FirstPosition(word, text) ==
    Min({p \in 1..Len(text) :
            /\ p + Len(word) - 1 <= Len(text)
            /\ SubSeq(text, p, p + Len(word) - 1) = word})

\* C7: a title that holds two or more ICON_MAP keywords gets the glyph of the
\* keyword declared first in ICON_MAP, wherever the keywords stand in the
\* title and however long they are; the slide title starts with that glyph.
ThmC7_FirstDeclaredKeywordWins ==
    \A k \in BuiltSections :
        LET hits == KeywordHits(sections[k].title)
        IN  Cardinality(hits) >= 2 =>
                /\ get_icon_for_title(sections[k].title) = ICON_MAP[Min(hits)].icon
                /\ TextOf(SlideOf(k), "title_box")
                     = <<ICON_MAP[Min(hits)].icon, " ", " ">> \o sections[k].title

\* a built slide whose title holds two keywords with different glyphs, the
\* later declared one standing first in the title and being the shorter one
WitC7_LaterKeywordStandsFirst ==
    /\ Serialized
    /\ \E k \in BuiltSections :
        LET t == lower(sections[k].title)
            hits == KeywordHits(sections[k].title)
        IN  \E a \in hits, b \in hits :
                /\ a = Min(hits)
                /\ a < b
                /\ ICON_MAP[a].icon # ICON_MAP[b].icon
                /\ FirstPosition(ICON_MAP[b].keyword, t) < FirstPosition(ICON_MAP[a].keyword, t)
                /\ Len(ICON_MAP[b].keyword) < Len(ICON_MAP[a].keyword)

-----------------------------------------------------------------------------
\* C8: a title without any ICON_MAP keyword gets the glyph of the first of the
\* groups start words, end words, thanks words that has a word in the
\* lower-cased title; when no group has one there is no icon and the slide
\* title is exactly the section title.
ThmC8_FallbackGroupsInOrder ==
    \A k \in BuiltSections :
        LET title == sections[k].title
            t == lower(title)
            shown == TextOf(SlideOf(k), "title_box")
            start == AnyIn(StartWords, t)
            end == AnyIn(EndWords, t)
            thank == AnyIn(ThankWords, t)
        IN  KeywordHits(title) = {} =>
                /\ start => shown = <<"U+1F4CA", " ", " ">> \o title
                /\ (~start /\ end) => shown = <<"U+1F3C1", " ", " ">> \o title
                /\ (~start /\ ~end /\ thank) => shown = <<"U+1F64F", " ", " ">> \o title
                /\ (~start /\ ~end /\ ~thank) =>
                        (shown = title /\ get_icon_for_title(title) = "")

\* a built slide whose title has no keyword, an end word and behind it a start word
WitC8_EndWordBeforeStartWord ==
    /\ Serialized
    /\ \E k \in BuiltSections :
        LET t == lower(sections[k].title)
        IN  /\ KeywordHits(sections[k].title) = {}
            /\ \E a \in DOMAIN EndWords, b \in DOMAIN StartWords :
                /\ Contains(EndWords[a], t)
                /\ Contains(StartWords[b], t)
                /\ FirstPosition(EndWords[a], t) < FirstPosition(StartWords[b], t)

-----------------------------------------------------------------------------
(* The normalization as the claim tells it, line by line: an emphasis pair   *)
(* opens and closes within one line.                                        *)

MarkerAt(line, p, m) ==
    /\ p + m - 1 <= Len(line)
    /\ \A d \in 0..(m - 1) : line[p + d] = "*"

\* the pairs of a marker of m asterisks with at least one character between
MarkerPairs(line, m) ==
    {pq \in (1..Len(line)) \X (1..Len(line)) :
        /\ MarkerAt(line, pq[1], m)
        /\ MarkerAt(line, pq[2], m)
        /\ pq[2] >= pq[1] + m + 1}

\* the first pair is removed, its inner text kept, and so on behind it
RECURSIVE Unmark(_, _)
Unmark(line, m) ==
    IF MarkerPairs(line, m) = {} THEN line
    ELSE LET p == Min({pq[1] : pq \in MarkerPairs(line, m)})
             q == Min({pq[2] : pq \in {r \in MarkerPairs(line, m) : r[1] = p}})
         IN  SubSeq(line, 1, p - 1) \o SubSeq(line, p + m, q - 1)
                \o Unmark(SubSeq(line, q + m, Len(line)), m)

\* one leading bullet marker and the whitespace behind it
RECURSIVE DropLeadingSpace(_)
DropLeadingSpace(line) ==
    IF line # <<>> /\ Head(line) \in Whitespace THEN DropLeadingSpace(Tail(line))
    ELSE line

Unbullet(line) ==
    IF line # <<>> /\ Head(line) \in {"*", "-", "U+2022"}
    THEN DropLeadingSpace(Tail(line))
    ELSE line

NormalizedLine(line) == strip(Unbullet(Unmark(Unmark(line, 2), 1)))

NormalizedLines(content) ==
    LET ls == split(content)
        done == [k \in 1..Len(ls) |-> NormalizedLine(ls[k])]
    IN  SelectSeq(done, LAMBDA l : l # <<>>)

ExampleLines ==
    << <<"B", "o", "l", "d", " ", "a", "n", "d", " ", "i", "t", "a", "l", "i", "c">>,
       <<"i", "t", "e", "m", " ", "o", "n", "e">>,
       <<"i", "t", "e", "m", " ", "t", "w", "o">> >>

\* the texts of the bullet paragraphs of a content box
BulletTexts(box) ==
    LET ps == SelectSeq(box.paragraphs, LAMBDA p : p.bullet)
    IN  [j \in 1..Len(ps) |-> ps[j].text]

\* C9: the lines written for a content are those of: remove paired **, then
\* paired single *, then one leading bullet marker (*, - or the bullet glyph,
\* with the whitespace behind it) of each line, then split at line breaks,
\* trim, drop empty lines; the example content gives exactly
\* "Bold and italic", "item one", "item two".
ThmC9_NormalizedLines ==
    \A k \in BuiltSections :
        LET content == SectionContent(sections[k])
        IN  content # <<>> =>
                /\ ContentLines(content) = NormalizedLines(content)
                /\ BulletTexts(Named(SlideOf(k), "content_box")[1])
                     = NormalizedLines(content)
                /\ content = ExampleContent =>
                     BulletTexts(Named(SlideOf(k), "content_box")[1]) = ExampleLines

\* the slide of the example content is built
WitC9_ExampleRendered ==
    /\ Serialized
    /\ \E k \in BuiltSections :
        /\ SectionContent(sections[k]) = ExampleContent
        /\ BulletTexts(Named(SlideOf(k), "content_box")[1]) = ExampleLines

-----------------------------------------------------------------------------
-----------------------------------------------------------------------------
\* the deck of a call that runs with nothing beside it
DeckAlone(a, unsup) ==
    LET colors == THEMES[ResolveTheme(ThemeParameter(a))]
    IN  [slide_width |-> 1000, slide_height |-> 750,
         slides |-> <<TitleSlide(a.topic, colors, unsup)>>
                    \o [k \in 1..Len(a.sections) |->
                            ContentSlide(a.sections[k], k, colors, unsup)]]

\* C11: the deck of a call is a function of its own topic, sections and theme
\* id: under every interleaving of concurrent calls each call builds, slide by
\* slide, and returns the deck it would produce alone, two calls with the same
\* arguments return the same deck, and THEMES and ICON_MAP stay as they were.
ThmC11_CallsDoNotInterfere ==
    /\ module_THEMES = THEMES
    /\ module_ICON_MAP = ICON_MAP
    /\ \A p \in DOMAIN calls :
        /\ calls[p].pc = "returned" =>
                calls[p].result = DeckAlone(calls[p].args, unsupported)
        /\ calls[p].pc \in {"title_slide", "content_slides"} =>
                /\ calls[p].theme_colors
                     = THEMES[ResolveTheme(ThemeParameter(calls[p].args))]
                /\ calls[p].prs.slides
                     = SubSeq(DeckAlone(calls[p].args, unsupported).slides,
                              1, Len(calls[p].prs.slides))
    /\ \A p \in DOMAIN calls, q \in DOMAIN calls :
        (/\ calls[p].pc = "returned"
         /\ calls[q].pc = "returned"
         /\ calls[p].args = calls[q].args) => calls[p].result = calls[q].result

\* two concurrent calls with the same arguments and the dark theme have both
\* returned a deck of at least two slides
WitC11_TwoCallsSameArguments ==
    \E p \in DOMAIN calls, q \in DOMAIN calls :
        /\ p # q
        /\ calls[p].pc = "returned"
        /\ calls[q].pc = "returned"
        /\ calls[p].args = calls[q].args
        /\ calls[p].theme = "modern_dark"
        /\ Len(calls[p].result.slides) >= 2

-----------------------------------------------------------------------------
\* C12: for a section with non-empty content the paragraphs of the content
\* text box are exactly the normalized lines of that content: one bullet
\* paragraph per line, in the same order, repeated lines kept, however many
\* lines there are.
ThmC12_OneParagraphPerLine ==
    \A k \in BuiltSections :
        LET content == SectionContent(sections[k])
            lines == NormalizedLines(content)
        IN  (content # <<>> /\ lines # <<>>) =>
                LET ps == Named(SlideOf(k), "content_box")[1].paragraphs
                IN  /\ Len(Named(SlideOf(k), "content_box")) = 1
                    /\ Len(ps) = Len(lines)
                    /\ \A j \in 1..Len(lines) :
                        /\ ps[j].text = lines[j]
                        /\ ps[j].bullet
                        /\ ps[j].rgb = theme_colors.text_color

\* a built slide whose content has a repeated line: both paragraphs are there
WitC12_RepeatedLineKept ==
    /\ Serialized
    /\ \E k \in BuiltSections :
        /\ Has(SlideOf(k), "content_box")
        /\ LET ps == Named(SlideOf(k), "content_box")[1].paragraphs
           IN  /\ Len(ps) >= 2
               /\ ps[1].text = ps[2].text
               /\ ps[1].text # <<>>

-----------------------------------------------------------------------------
\* the content slide as drawn for a section with content when the render
\* target lacks nothing
ReferenceSlide ==
    ContentSlide([id |-> 1, title |-> <<"D", "a", "t", "a">>, content |-> <<"a">>],
                 1, THEMES["professional_blue"], {})

Rect(shape) == <<shape.left, shape.top, shape.width, shape.height>>

\* C13: every visual element of a content slide (overlay, header bar, title
\* box, accent underline, content card, content text box, bottom accent bar,
\* slide-number box) has the same position and size on every content slide of
\* every deck, whatever the theme, the content and the decorative elements
\* that were drawn or skipped.
CexC13_FixedGeometry ==
    \A k \in BuiltSections :
        \A n \in 1..Len(SlideOf(k).shapes) :
            LET shape == SlideOf(k).shapes[n]
            IN  /\ Has(ReferenceSlide, shape.name)
                /\ Rect(shape) = Rect(Named(ReferenceSlide, shape.name)[1])


=============================================================================
